---- MODULE Spec2Model ----
(***************************************************************************)
(* Model of synthetic_data_kit/core/ingest.py (determine_parser) and of    *)
(* synthetic_data_kit/core/create.py (process_file).                       *)
(*                                                                         *)
(* Python strings are sequences of one-character strings, so that          *)
(* startswith, the `in` substring test, lower() and os.path.splitext are   *)
(* computed and not assumed.                                               *)
(***************************************************************************)
EXTENDS Integers, Sequences, FiniteSets, TLC

VARIABLES
    \* ---- ingest.determine_parser ----
    file_path,      \* the file path or URL
    multimodal,     \* the multimodal flag
    path_exists,    \* what os.path.exists(file_path) answers
    response,       \* what requests.head(file_path) does
    ipc,            \* "call", "returned" or "raised"
    parser,         \* the parser class returned, or the exception raised
    \* ---- create.process_file ----
    content_type,   \* the content_type argument
    num_pairs,      \* the num_pairs argument (None or an int)
    cfg_limit,      \* generation config's num_cot_enhance_examples (None or an int)
    data,           \* what json.load(f) gives for the input file
    pc,             \* position in process_file: "start", "loop" or "done"
    write_error,    \* whether writing the output file raised (history)
    normalized,     \* conversations as set by the shape branch (history)
    shape,          \* which of the five shape branches ran (history)
    conversations,
    is_single_conversation,
    i,              \* the loop index of enumerate(conversations)
    enhanced_conversations,
    calls,          \* the arguments of every enhance_with_cot call so far (history)
    output,         \* the JSON document in the output file
    outcome         \* what process_file returned or raised

ingestVars == <<file_path, multimodal, path_exists, response, ipc, parser>>
createVars == <<content_type, num_pairs, cfg_limit, data, pc, write_error,
                normalized, shape, conversations, is_single_conversation, i,
                enhanced_conversations, calls, output, outcome>>
vars == <<ingestVars, createVars>>

-----------------------------------------------------------------------------
(* Python str operations on sequences of characters.                       *)

Str_http == <<"h", "t", "t", "p", ":", "/", "/">>
Str_https == <<"h", "t", "t", "p", "s", ":", "/", "/">>
Str_youtube_com == <<"y", "o", "u", "t", "u", "b", "e", ".", "c", "o", "m">>
Str_youtu_be == <<"y", "o", "u", "t", "u", ".", "b", "e">>
Str_application_pdf == <<"a", "p", "p", "l", "i", "c", "a", "t", "i", "o", "n", "/", "p", "d", "f">>
Ext_pdf == <<".", "p", "d", "f">>
Ext_docx == <<".", "d", "o", "c", "x">>
Ext_pptx == <<".", "p", "p", "t", "x">>
Ext_html == <<".", "h", "t", "m", "l">>
Ext_htm == <<".", "h", "t", "m">>
Ext_txt == <<".", "t", "x", "t">>

\* s.startswith(p)
StartsWith(s, p) == Len(s) >= Len(p) /\ SubSeq(s, 1, Len(p)) = p

\* p in s
Contains(s, p) ==
    \E n \in 1..(Len(s) - Len(p) + 1) : SubSeq(s, n, n + Len(p) - 1) = p

\* c.lower() for the characters the paths use
LowerChar(c) ==
    CASE c = "P" -> "p"
      [] c = "D" -> "d"
      [] c = "F" -> "f"
      [] OTHER -> c

\* s.lower()
Lower(s) == [n \in 1..Len(s) |-> LowerChar(s[n])]

\* s.rfind(c), 1-based, 0 when c does not occur
RFind(s, c) ==
    LET hits == {n \in 1..Len(s) : s[n] = c}
    IN  IF hits = {} THEN 0 ELSE CHOOSE n \in hits : \A j \in hits : j <= n

\* os.path.splitext(p)[1] (posixpath): the last dot after the last "/",
\* unless only dots come before it in the file name
SplitExt(p) ==
    LET sepIndex == RFind(p, "/")
        dotIndex == RFind(p, ".")
    IN  IF dotIndex > sepIndex
           /\ \E j \in (sepIndex + 1)..(dotIndex - 1) : p[j] # "."
        THEN SubSeq(p, dotIndex, Len(p))
        ELSE <<>>

-----------------------------------------------------------------------------
(* ingest.py                                                               *)

\* _check_pdf_url: a RequestException counts as "not a PDF"
CheckPdfUrl(resp) ==
    IF resp.raises THEN FALSE
    ELSE Contains(resp.content_type, Str_application_pdf)

\* file_path.startswith(("http://", "https://"))
IsUrl(p) == StartsWith(p, Str_http) \/ StartsWith(p, Str_https)

IsYouTubeComOnly(p) == Contains(p, Str_youtube_com)

\* "youtube.com" in file_path or "youtu.be" in file_path
IsYouTube(p) == Contains(p, Str_youtube_com) \/ Contains(p, Str_youtu_be)

ParsersNoHtm ==
    [e \in {Ext_html, Ext_docx, Ext_pptx, Ext_txt} |->
        CASE e = Ext_html -> "HTMLParser"
          [] e = Ext_docx -> "DOCXParser"
          [] e = Ext_pptx -> "PPTParser"
          [] e = Ext_txt  -> "TXTParser"]

\* the parsers dict of determine_parser
Parsers ==
    [e \in {Ext_html, Ext_htm, Ext_docx, Ext_pptx, Ext_txt} |->
        CASE e = Ext_html -> "HTMLParser"
          [] e = Ext_htm  -> "HTMLParser"
          [] e = Ext_docx -> "DOCXParser"
          [] e = Ext_pptx -> "PPTParser"
          [] e = Ext_txt  -> "TXTParser"]

\* determine_parser(file_path, config, multimodal): the class returned or the
\* exception raised
DetermineParserResult(p, mm, exists, resp) ==
    LET ext == Lower(SplitExt(p))
    IN  IF mm
        THEN IF ext \in {Ext_pdf, Ext_docx, Ext_pptx}
             THEN "MultimodalParser"
             ELSE "ValueError"
        ELSE IF ext = Ext_pdf
        THEN "PDFParser"
        ELSE IF IsUrl(p)
        THEN IF IsYouTube(p)
             THEN "YouTubeParser"
             ELSE IF CheckPdfUrl(resp)
             THEN (IF mm THEN "MultimodalParser" ELSE "PDFParser")
             ELSE "HTMLParser"
        ELSE IF exists
        THEN IF ext \in DOMAIN Parsers
             THEN Parsers[ext]
             ELSE "ValueError"
        ELSE "FileNotFoundError"

Exceptions == {"ValueError", "FileNotFoundError"}

Schemes ==
    { <<>>,
      <<"h", "t", "t", "p", ":", "/", "/">>,
      <<"h", "t", "t", "p", "s", ":", "/", "/">> }
Middles ==
    { <<"w", "w", "w", ".", "y", "o", "u", "t", "u", "b", "e", ".", "c", "o", "m", "/", "w", "a", "t", "c", "h", "?", "v", "=", "a">>,
      <<"y", "o", "u", "t", "u", ".", "b", "e">>,
      <<"a", ".", "i", "o">>,
      <<"a", ".", "i", "o", "/", "y", "o", "u", "t", "u", ".", "b", "e">>,
      <<"d", "o", "c", "s">> }
Tails ==
    { <<>>,
      <<"/", "f">>,
      <<"/", "f", ".", "p", "d", "f">>,
      <<"/", "f", ".", "P", "D", "F">>,
      <<"/", "f", ".", "h", "t", "m", "l">>,
      <<"/", "f", ".", "h", "t", "m">>,
      <<"/", "f", ".", "d", "o", "c", "x">>,
      <<"/", "f", ".", "p", "p", "t", "x">>,
      <<"/", "f", ".", "t", "x", "t">>,
      <<"/", "f", ".", "m", "d">>,
      <<"/", ".", "p", "d", "f">> }
ContentTypes ==
    { <<>>,
      <<"a", "p", "p", "l", "i", "c", "a", "t", "i", "o", "n", "/", "p", "d", "f">>,
      <<"t", "e", "x", "t", "/", "h", "t", "m", "l">>,
      <<"a", "p", "p", "l", "i", "c", "a", "t", "i", "o", "n", "/", "p", "d", "f", ";", " ", "q">> }

FilePaths == {s \o m \o t : s \in Schemes, m \in Middles, t \in Tails}

Responses ==
    {[raises |-> TRUE, content_type |-> <<>>]}
    \cup {[raises |-> FALSE, content_type |-> c] : c \in ContentTypes}

CreateIdle ==
    /\ content_type = "none"
    /\ num_pairs = [t |-> "null"]
    /\ cfg_limit = [t |-> "null"]
    /\ data = [t |-> "null"]
    /\ pc = "idle"
    /\ write_error = FALSE
    /\ normalized = [t |-> "null"]
    /\ shape = 0
    /\ conversations = [t |-> "null"]
    /\ is_single_conversation = FALSE
    /\ i = 0
    /\ enhanced_conversations = <<>>
    /\ calls = <<>>
    /\ output = [t |-> "null"]
    /\ outcome = "none"

InitIngest ==
    /\ file_path \in FilePaths
    /\ multimodal \in BOOLEAN
    /\ path_exists \in BOOLEAN
    /\ response \in Responses
    /\ ipc = "call"
    /\ parser = "none"
    /\ CreateIdle

DetermineParser ==
    /\ ipc = "call"
    /\ parser' = DetermineParserResult(file_path, multimodal, path_exists, response)
    /\ ipc' = IF parser' \in Exceptions THEN "raised" ELSE "returned"
    /\ UNCHANGED <<file_path, multimodal, path_exists, response>>
    /\ UNCHANGED createVars

NextIngest == DetermineParser

SpecIngest == InitIngest /\ [][NextIngest]_vars

\* the lower-cased extension of the path under selection
PathExt == Lower(SplitExt(file_path))

PathIsRemote ==
    StartsWith(file_path, Str_http) \/ StartsWith(file_path, Str_https)

PathNamesYouTube ==
    Contains(file_path, Str_youtube_com) \/ Contains(file_path, Str_youtu_be)

\* C1 as stated: every http(s) reference that contains youtube.com or
\* youtu.be gets the YouTube parser, and no other parser and no error
\* (read here for calls without the multimodal flag only).
C1_AnyYouTubeUrl ==
    (ipc # "call" /\ ~multimodal /\ PathIsRemote /\ PathNamesYouTube)
        => parser = "YouTubeParser"

\* C1 amended: when the multimodal flag is not set and the lower-cased
\* extension is not .pdf, every http(s) reference that contains youtube.com
\* or youtu.be gets the YouTube parser, whatever the PDF probe would answer.
C1_YouTubeUrl ==
    (ipc # "call" /\ ~multimodal /\ PathExt # Ext_pdf
        /\ PathIsRemote /\ PathNamesYouTube)
        => (ipc = "returned" /\ parser = "YouTubeParser")

\* a youtu.be URL (no youtube.com in it) whose probe would report a PDF
C1_Witness ==
    /\ ipc = "returned"
    /\ parser = "YouTubeParser"
    /\ ~Contains(file_path, Str_youtube_com)
    /\ ~response.raises
    /\ Contains(response.content_type, Str_application_pdf)

\* the table the selection is documented to follow for local paths
C6_Table(ext) ==
    CASE ext = Ext_html -> "HTMLParser"
      [] ext = Ext_htm  -> "HTMLParser"
      [] ext = Ext_docx -> "DOCXParser"
      [] ext = Ext_pptx -> "PPTParser"
      [] ext = Ext_txt  -> "TXTParser"
      [] ext = Ext_pdf  -> "PDFParser"
      [] OTHER -> "ValueError"

\* C6 as stated: a non-multimodal local path that does not exist fails with
\* FileNotFoundError; one that exists gets the parser of the table, or
\* ValueError when its extension is not in the table.
C6_LocalAsStated ==
    (ipc # "call" /\ ~multimodal /\ ~PathIsRemote)
        => parser = IF path_exists THEN C6_Table(PathExt) ELSE "FileNotFoundError"

\* C6 amended: for a non-multimodal local path, extension .pdf gets the PDF
\* parser whether or not the path exists; any other path that does not exist
\* fails with FileNotFoundError; an existing path gets the parser of the
\* table, or ValueError when its extension is not in the table.
C6_Local ==
    (ipc # "call" /\ ~multimodal /\ ~PathIsRemote)
        => parser = IF PathExt = Ext_pdf THEN "PDFParser"
                    ELSE IF path_exists THEN C6_Table(PathExt)
                    ELSE "FileNotFoundError"

\* an existing local .htm file is given the HTML parser
C6_Witness ==
    /\ ipc = "returned"
    /\ ~multimodal
    /\ ~PathIsRemote
    /\ path_exists
    /\ PathExt = Ext_htm
    /\ parser = "HTMLParser"

-----------------------------------------------------------------------------
(* JSON values as json.load gives them: tagged records.  A dict keeps its   *)
(* keys in insertion order, as a sequence of <<key, value>> pairs; every    *)
(* str (keys included) is a sequence of characters.                         *)

JNull == [t |-> "null"]
JNum(n) == [t |-> "num", v |-> n]
JStr(s) == [t |-> "str", v |-> s]
JList(s) == [t |-> "list", v |-> s]
JDict(pairs) == [t |-> "dict", v |-> pairs]

\* isinstance(x, dict), isinstance(x, list)
IsDict(x) == x.t = "dict"
IsList(x) == x.t = "list"

\* list(d.keys())
Keys(d) == [n \in 1..Len(d.v) |-> d.v[n][1]]

\* key in d
Has(d, key) == \E n \in 1..Len(d.v) : d.v[n][1] = key

\* d[key]
Get(d, key) == d.v[CHOOSE n \in 1..Len(d.v) : d.v[n][1] = key][2]

\* d2 = d.copy(); d2[key] = x
SetItem(d, key, x) ==
    IF Has(d, key)
    THEN JDict([n \in 1..Len(d.v) |->
                    IF d.v[n][1] = key THEN <<key, x>> ELSE d.v[n]])
    ELSE JDict(Append(d.v, <<key, x>>))

\* bool(x) of a JSON value (None and empty containers are falsy)
Truthy(x) ==
    CASE x.t = "null" -> FALSE
      [] x.t = "num"  -> x.v # 0
      [] OTHER        -> Len(x.v) > 0

\* whether len(x) is defined
HasLen(x) == x.t \in {"list", "str", "dict"}

\* whether x[:m] is defined (a dict cannot be sliced)
Sliceable(x) == x.t \in {"list", "str"}

\* x[:m] for m >= 0
Slice(x, m) ==
    LET n == IF m < Len(x.v) THEN m ELSE Len(x.v)
    IN  [t |-> x.t, v |-> SubSeq(x.v, 1, n)]

\* the items `for ... in x` visits: list items, the characters of a str,
\* the keys of a dict
Iter(x) ==
    CASE x.t = "list" -> x.v
      [] x.t = "str"  -> [n \in 1..Len(x.v) |-> JStr(<<x.v[n]>>)]
      [] x.t = "dict" -> [n \in 1..Len(x.v) |-> JStr(x.v[n][1])]

K_qa_pairs == <<"q", "a", "_", "p", "a", "i", "r", "s">>
K_conversations == <<"c", "o", "n", "v", "e", "r", "s", "a", "t", "i", "o", "n", "s">>
K_from == <<"f", "r", "o", "m">>
K_value == <<"v", "a", "l", "u", "e">>
K_id == <<"i", "d">>
K_question == <<"q", "u", "e", "s", "t", "i", "o", "n">>
K_answer == <<"a", "n", "s", "w", "e", "r">>
K_summary == <<"s", "u", "m", "m", "a", "r", "y">>
K_cot_examples == <<"c", "o", "t", "_", "e", "x", "a", "m", "p", "l", "e", "s">>
K_title == <<"t", "i", "t", "l", "e">>
Str_human == <<"h", "u", "m", "a", "n">>
Str_assistant == <<"a", "s", "s", "i", "s", "t", "a", "n", "t">>
Str_oops == <<"o", "o", "p", "s">>

-----------------------------------------------------------------------------
(* Collaborators of create.py that live in other modules of the package.    *)

Message(from, value) ==
    JDict(<< <<K_from, JStr(from)>>, <<K_value, JStr(value)>> >>)

\* utils.llm_processing.convert_to_conversation_format: one two-message
\* conversation (human question, assistant answer) per QA pair, in order
ConvertToConversationFormat(qa_pairs) ==
    [n \in 1..Len(qa_pairs.v) |->
        JList(<< Message(Str_human, Get(qa_pairs.v[n], K_question).v),
                 Message(Str_assistant, Get(qa_pairs.v[n], K_answer).v) >>)]

\* reasoning injected into an assistant message
InjectCot(msg) ==
    IF IsDict(msg) /\ Has(msg, K_from) /\ Has(msg, K_value)
       /\ Get(msg, K_from) = JStr(Str_assistant)
    THEN SetItem(msg, K_value, JStr(<<"#">> \o Get(msg, K_value).v))
    ELSE msg

\* generators.cot_generator.COTGenerator.enhance_with_cot: what it may
\* return for a message list: the messages with reasoning injected into the
\* assistant messages, possibly followed by a further message, or the same
\* wrapped in one more enclosing list
EnhanceWithCot(conv_messages) ==
    LET injected == [n \in 1..Len(conv_messages.v) |-> InjectCot(conv_messages.v[n])]
    IN  { JList(injected),
          JList(Append(injected, Message(Str_assistant, <<"#">>))),
          JList(<<JList(injected)>>) }

QAResult == JDict(<< <<K_summary, JStr(<<"s">>)>>, <<K_qa_pairs, JList(<<>>)>> >>)
CotResult == JDict(<< <<K_summary, JStr(<<"s">>)>>, <<K_cot_examples, JList(<<>>)>> >>)
SummaryText == JStr(<<"s">>)

-----------------------------------------------------------------------------
(* create.py: process_file                                                 *)

\* which branch of the format detection json.load's value takes
ShapeConversationsFirst(d) ==
    IF IsDict(d) /\ Has(d, K_conversations) THEN 2
    ELSE IF IsDict(d) /\ Has(d, K_qa_pairs) THEN 1
    ELSE IF IsList(d)
            /\ \A n \in 1..Len(d.v) : IsDict(d.v[n]) => Has(d.v[n], K_conversations)
    THEN 3
    ELSE IF IsList(d)
            /\ \A n \in 1..Len(d.v) : IsDict(d.v[n]) /\ Has(d.v[n], K_from)
    THEN 4
    ELSE 5

Shape(d) ==
    IF IsDict(d) /\ Has(d, K_qa_pairs) THEN 1
    ELSE IF IsDict(d) /\ Has(d, K_conversations) THEN 2
    ELSE IF IsList(d)
            /\ \A n \in 1..Len(d.v) : IsDict(d.v[n]) => Has(d.v[n], K_conversations)
    THEN 3
    ELSE IF IsList(d)
            /\ \A n \in 1..Len(d.v) : IsDict(d.v[n]) /\ Has(d.v[n], K_from)
    THEN 4
    ELSE 5

\* `conversations` as the branch taken sets it
NormalizedConversations(d) ==
    CASE Shape(d) = 1 ->
            LET conv_list == ConvertToConversationFormat(Get(d, K_qa_pairs))
            IN  JList([n \in 1..Len(conv_list) |->
                        JDict(<< <<K_conversations, conv_list[n]>> >>)])
      [] Shape(d) = 2 -> JList(<<d>>)
      [] Shape(d) = 3 -> d
      [] Shape(d) = 4 -> JList(<< JDict(<< <<K_conversations, d>> >>) >>)
      [] OTHER -> d

\* `is_single_conversation` as the branch taken sets it
IsSingleConversation(d) == Shape(d) \in {2, 4}

\* max_examples: num_pairs when given, else the configured value
MaxExamples(np, cfg) == IF np.t # "null" THEN np ELSE cfg

LimitConversationsOffByOne(c, max_examples) ==
    IF max_examples.t # "null" /\ Len(c.v) > max_examples.v + 1
    THEN Slice(c, max_examples.v + 1)
    ELSE c

\* if max_examples is not None and len(conversations) > max_examples:
\*     conversations = conversations[:max_examples]
LimitConversations(c, max_examples) ==
    IF max_examples.t # "null" /\ Len(c.v) > max_examples.v
    THEN Slice(c, max_examples.v)
    ELSE c

\* whether limiting or iterating c raises: len() of a value without a
\* length, a slice of a dict (TypeError, KeyError from Python 3.12 on), or a
\* for loop over a value that is not iterable
LoadRaisesTypeError(c, max_examples) ==
    \/ ~HasLen(c)
    \/ /\ max_examples.t # "null"
       /\ Len(c.v) > max_examples.v
       /\ ~Sliceable(c)

UnwrapNever(enhanced_messages) == enhanced_messages

UnwrapFirst(enhanced_messages) ==
    IF Truthy(enhanced_messages) /\ IsList(enhanced_messages)
    THEN enhanced_messages.v[1]
    ELSE enhanced_messages

\* the nested-response handling: a non-empty list whose first element is a
\* list is replaced by that element
Unwrap(enhanced_messages) ==
    IF Truthy(enhanced_messages) /\ IsList(enhanced_messages)
    THEN IF Truthy(enhanced_messages) /\ IsList(enhanced_messages.v[1])
         THEN enhanced_messages.v[1]
         ELSE enhanced_messages
    ELSE enhanced_messages

EnhancedConvFresh(conversation, enhanced_messages) ==
    JDict(<< <<K_conversations, enhanced_messages>> >>)

\* enhanced_conv = conversation.copy()
\* enhanced_conv["conversations"] = enhanced_messages
EnhancedConv(conversation, enhanced_messages) ==
    SetItem(conversation, K_conversations, enhanced_messages)

DropOriginal(enhanced, conversation) == enhanced

\* enhanced_conversations.append(conversation)  # Keep original
KeepOriginal(enhanced, conversation) == Append(enhanced, conversation)

SavedAlwaysList(single, enhanced) == JList(enhanced)

\* the document json.dump writes for cot-enhance
SavedDocument(single, enhanced) ==
    IF single /\ Len(enhanced) = 1 THEN enhanced[1] ELSE JList(enhanced)

CatchesWriteErrorAlways(ct) == TRUE

\* whether the write of the output file sits in a try/except Exception
CatchesWriteError(ct) == ct = "qa"

-----------------------------------------------------------------------------
(* Inputs                                                                  *)

MaxLen == 3      \* longest input list, most QA pairs
MaxLimit == 3    \* largest num_pairs

Digits == <<"1", "2", "3", "4", "5", "6", "7", "8", "9">>

MsgH == Message(Str_human, <<"q">>)
MsgA == Message(Str_assistant, <<"a">>)

\* a conversation with a further field, one with no messages, one whose
\* conversations field is a str, an object without the field, a number
ConvA == JDict(<< <<K_id, JNum(1)>>, <<K_conversations, JList(<<MsgH, MsgA>>)>>,
                  <<K_title, JStr(<<"t">>)>> >>)
ConvE == JDict(<< <<K_conversations, JList(<<>>)>> >>)
ConvBad == JDict(<< <<K_conversations, JStr(Str_oops)>>, <<K_id, JNum(2)>> >>)
NoConv == JDict(<< <<K_id, JNum(3)>>, <<K_title, JStr(<<"t">>)>> >>)

Items == {ConvA, ConvE, ConvBad, NoConv, JNum(7), MsgH}

QAPair(n) ==
    JDict(<< <<K_question, JStr(<<"q", Digits[n]>>)>>,
             <<K_answer, JStr(<<"a", Digits[n]>>)>> >>)

QAPairs(k) == JList([n \in 1..k |-> QAPair(n)])

Inputs ==
    {[t |-> "invalid"], JNull, JNum(7), JStr(<<"a", "b">>)}
    \cup {ConvA, ConvE, ConvBad, NoConv}
    \cup {JDict(<< <<K_qa_pairs, QAPairs(k)>> >>) : k \in 0..MaxLen}
    \cup {JDict(<< <<K_conversations, JList(<<MsgH, MsgA>>)>>,
                   <<K_qa_pairs, QAPairs(k)>> >>) : k \in 0..MaxLen}
    \cup {JList(s) : s \in UNION {[1..k -> Items] : k \in 0..MaxLen}}

Limits == {JNull} \cup {JNum(n) : n \in 0..MaxLimit}

CfgLimits == Limits

ContentTypeNames ==
    {"qa", "multimodal-qa", "vqa", "summary", "cot", "cot-enhance", "other"}

IngestIdle ==
    /\ file_path = <<>>
    /\ multimodal = FALSE
    /\ path_exists = FALSE
    /\ response = [raises |-> TRUE, content_type |-> <<>>]
    /\ ipc = "idle"
    /\ parser = "none"

InitCreate ==
    /\ content_type \in ContentTypeNames
    /\ num_pairs \in Limits
    /\ cfg_limit \in CfgLimits
    /\ data \in IF content_type = "cot-enhance" THEN Inputs ELSE {JNull}
    /\ pc = "start"
    /\ write_error = FALSE
    /\ normalized = JNull
    /\ shape = 0
    /\ conversations = JNull
    /\ is_single_conversation = FALSE
    /\ i = 0
    /\ enhanced_conversations = <<>>
    /\ calls = <<>>
    /\ output = JNull
    /\ outcome = "none"
    /\ IngestIdle

-----------------------------------------------------------------------------
(* Actions of process_file                                                 *)

\* open(output_path, 'w') and json.dump(doc, f): the file holds doc, or the
\* write raises; the exception is swallowed where the write is guarded
WriteOutput(doc) ==
    \E fails \in BOOLEAN :
        /\ write_error' = fails
        /\ output' = IF fails THEN output ELSE doc
        /\ outcome' = IF fails /\ ~CatchesWriteError(content_type)
                      THEN "OSError" ELSE "returned"
        /\ pc' = "done"

loopVars == <<normalized, shape, conversations, is_single_conversation, i,
              enhanced_conversations, calls>>
argVars == <<content_type, num_pairs, cfg_limit, data>>

\* content_type == "qa"
GenerateQA ==
    /\ pc = "start"
    /\ content_type = "qa"
    /\ WriteOutput(QAResult)
    /\ UNCHANGED <<argVars, loopVars, ingestVars>>

\* content_type == "summary"
GenerateSummary ==
    /\ pc = "start"
    /\ content_type = "summary"
    /\ WriteOutput(JDict(<< <<K_summary, SummaryText>> >>))
    /\ UNCHANGED <<argVars, loopVars, ingestVars>>

\* content_type == "cot"
GenerateCot ==
    /\ pc = "start"
    /\ content_type = "cot"
    /\ WriteOutput(CotResult)
    /\ UNCHANGED <<argVars, loopVars, ingestVars>>

\* content_type in ("multimodal-qa", "vqa"): the generator writes its own
\* output and its path is returned
GenerateDataset ==
    /\ pc = "start"
    /\ content_type \in {"multimodal-qa", "vqa"}
    /\ pc' = "done"
    /\ outcome' = "returned"
    /\ UNCHANGED <<argVars, loopVars, write_error, output, ingestVars>>

\* any other content_type
UnknownContentType ==
    /\ pc = "start"
    /\ content_type \notin {"qa", "multimodal-qa", "vqa", "summary", "cot", "cot-enhance"}
    /\ pc' = "done"
    /\ outcome' = "ValueError"
    /\ UNCHANGED <<argVars, loopVars, write_error, output, ingestVars>>

\* content_type == "cot-enhance", up to the start of the loop: json.load,
\* the format detection and the limit
LoadConversations ==
    /\ pc = "start"
    /\ content_type = "cot-enhance"
    /\ IF data.t = "invalid"
       THEN /\ pc' = "done"
            /\ outcome' = "ValueError"
            /\ UNCHANGED <<normalized, shape, conversations, is_single_conversation>>
       ELSE LET max_examples == MaxExamples(num_pairs, cfg_limit)
                c == NormalizedConversations(data)
            IN  /\ normalized' = c
                /\ shape' = Shape(data)
                /\ is_single_conversation' = IsSingleConversation(data)
                /\ IF LoadRaisesTypeError(c, max_examples)
                   THEN /\ pc' = "done"
                        /\ outcome' = "TypeError"
                        /\ UNCHANGED conversations
                   ELSE /\ pc' = "loop"
                        /\ outcome' = outcome
                        /\ conversations' = LimitConversations(c, max_examples)
    /\ UNCHANGED <<argVars, i, enhanced_conversations, calls, write_error,
                   output, ingestVars>>

\* one iteration of `for i, conversation in enumerate(conversations)`
EnhanceConversation ==
    /\ pc = "loop"
    /\ i < Len(Iter(conversations))
    /\ LET conversation == Iter(conversations)[i + 1]
       IN  IF IsDict(conversation) /\ Has(conversation, K_conversations)
           THEN LET conv_messages == Get(conversation, K_conversations)
                IN  IF ~IsList(conv_messages)
                    THEN /\ enhanced_conversations' =
                                KeepOriginal(enhanced_conversations, conversation)
                         /\ UNCHANGED calls
                    ELSE \E returned \in EnhanceWithCot(conv_messages) :
                            /\ calls' = Append(calls,
                                    [i |-> i, conv_messages |-> conv_messages,
                                     returned |-> returned])
                            /\ enhanced_conversations' =
                                    Append(enhanced_conversations,
                                           EnhancedConv(conversation, Unwrap(returned)))
           ELSE /\ enhanced_conversations' =
                        Append(enhanced_conversations, conversation)
                /\ UNCHANGED calls
    /\ i' = i + 1
    /\ UNCHANGED <<argVars, pc, normalized, shape, conversations,
                   is_single_conversation, write_error, output, outcome, ingestVars>>

\* after the loop: write the enhanced conversations and return the path
SaveEnhanced ==
    /\ pc = "loop"
    /\ i = Len(Iter(conversations))
    /\ WriteOutput(SavedDocument(is_single_conversation, enhanced_conversations))
    /\ UNCHANGED <<argVars, loopVars, ingestVars>>

NextCreate ==
    \/ GenerateQA
    \/ GenerateSummary
    \/ GenerateCot
    \/ GenerateDataset
    \/ UnknownContentType
    \/ LoadConversations
    \/ EnhanceConversation
    \/ SaveEnhanced

SpecCreate == InitCreate /\ [][NextCreate]_vars

-----------------------------------------------------------------------------
(* Properties of the cot-enhance path                                      *)

\* the loop has been entered, and no exception other than a failed write
\* has ended the call
Entered ==
    /\ content_type = "cot-enhance"
    /\ \/ pc = "loop"
       \/ pc = "done" /\ outcome \in {"returned", "OSError"}

\* the call returned and the output file was written
Written ==
    /\ content_type = "cot-enhance"
    /\ pc = "done"
    /\ outcome = "returned"
    /\ ~write_error

\* the limit in effect: num_pairs when given, else the configured value
LimitInEffect == IF num_pairs # JNull THEN num_pairs ELSE cfg_limit

\* the conversations of the written document, bare object or array
OutputItems == IF output.t = "list" THEN output.v ELSE <<output>>

\* the input is one object with a conversations key (and no qa_pairs key)
InputIsSingleObject ==
    /\ data.t = "dict"
    /\ Has(data, K_conversations)
    /\ ~Has(data, K_qa_pairs)

\* the input is a list of objects that each have a conversations key
InputIsConversationList ==
    /\ data.t = "list"
    /\ \A n \in 1..Len(data.v) :
            data.v[n].t = "dict" /\ Has(data.v[n], K_conversations)

\* the input is a list of message objects
InputIsMessageList ==
    /\ data.t = "list"
    /\ \A n \in 1..Len(data.v) : data.v[n].t = "dict" /\ Has(data.v[n], K_from)

C3_FirstMatch ==
    IF data.t = "dict" /\ Has(data, K_qa_pairs) THEN 1
    ELSE IF data.t = "dict" /\ Has(data, K_conversations) THEN 2
    ELSE IF data.t = "list"
            /\ \A n \in 1..Len(data.v) :
                    data.v[n].t = "dict" => Has(data.v[n], K_conversations)
    THEN 3
    ELSE IF InputIsMessageList THEN 4
    ELSE 5

\* C3: the input is handled by the first matching branch in the order
\* qa_pairs object, conversations object, list of conversation objects, list
\* of message objects, fallback; an object with both qa_pairs and
\* conversations is handled as qa_pairs: one conversation per QA pair and
\* is_single_conversation false.
C3_Priority ==
    (content_type = "cot-enhance" /\ shape # 0) =>
        /\ shape = C3_FirstMatch
        /\ is_single_conversation = (C3_FirstMatch \in {2, 4})
        /\ C3_FirstMatch = 2 => normalized = JList(<<data>>)
        /\ C3_FirstMatch \in {3, 5} => normalized = data
        /\ C3_FirstMatch = 4 =>
                normalized = JList(<< JDict(<< <<K_conversations, data>> >>) >>)
        /\ (data.t = "dict" /\ Has(data, K_qa_pairs)) =>
                /\ shape = 1
                /\ ~is_single_conversation
                /\ normalized.t = "list"
                /\ Len(normalized.v) = Len(Get(data, K_qa_pairs).v)
                /\ \A n \in 1..Len(normalized.v) :
                        Keys(normalized.v[n]) = <<K_conversations>>

\* an object with both keys and two QA pairs became two conversations
C3_Witness ==
    /\ content_type = "cot-enhance"
    /\ shape = 1
    /\ Has(data, K_conversations)
    /\ normalized.t = "list"
    /\ Len(normalized.v) = 2

\* min(n, m) for n conversations under the limit in effect
C4_Kept ==
    IF LimitInEffect # JNull /\ LimitInEffect.v < Len(normalized.v)
    THEN LimitInEffect.v
    ELSE Len(normalized.v)

\* C4: when the detected conversations are a list of n, the conversations
\* iterated are its first min(n, m) in order under a limit m >= 0 and all n
\* with no limit, from the first enhancement call on; every enhancement call
\* is for one of them; and the conversations written are those, in order.
C4_Truncation ==
    (Entered /\ normalized.t = "list") =>
        /\ conversations = JList(SubSeq(normalized.v, 1, C4_Kept))
        /\ \A n \in 1..Len(calls) :
                /\ calls[n].i < C4_Kept
                /\ calls[n].conv_messages =
                        Get(normalized.v[calls[n].i + 1], K_conversations)
        /\ Len(enhanced_conversations) <= C4_Kept
        /\ Written =>
                /\ Len(enhanced_conversations) = C4_Kept
                /\ OutputItems = enhanced_conversations
                /\ \A j \in 1..C4_Kept :
                        \/ enhanced_conversations[j] = normalized.v[j]
                        \/ /\ normalized.v[j].t = "dict"
                           /\ Has(normalized.v[j], K_conversations)
                           /\ enhanced_conversations[j].t = "dict"
                           /\ enhanced_conversations[j] =
                                SetItem(normalized.v[j], K_conversations,
                                        Get(enhanced_conversations[j], K_conversations))

\* three conversations under num_pairs = 2: two enhanced and written
C4_Witness ==
    /\ Written
    /\ num_pairs = JNum(2)
    /\ normalized.t = "list"
    /\ Len(normalized.v) = 3
    /\ Len(calls) = 2
    /\ Len(enhanced_conversations) = 2

\* an item the loop hands to the enhancement strategy
C5_WellFormed(item) ==
    /\ item.t = "dict"
    /\ Has(item, K_conversations)
    /\ Get(item, K_conversations).t = "list"

\* C5: the loop appends one output item per input item, in order; an item
\* without a conversations list is appended unchanged and no enhancement
\* call is made for it; every other item gets exactly one enhancement call
\* and the call's result as its conversations; the loop never raises and
\* always goes on to the next item, so the output has as many items as the
\* batch.
C5_Resilience ==
    Entered =>
        LET batch == Iter(conversations)
        IN  /\ Len(enhanced_conversations) = i
            /\ i <= Len(batch)
            /\ pc = "loop" => outcome = "none"
            /\ (pc = "loop" /\ i < Len(batch)) => ENABLED EnhanceConversation
            /\ pc = "done" => i = Len(batch)
            /\ \A j \in 1..i :
                LET made == {n \in 1..Len(calls) : calls[n].i = j - 1}
                IN  IF C5_WellFormed(batch[j])
                    THEN /\ Cardinality(made) = 1
                         /\ \A n \in made :
                            /\ calls[n].conv_messages = Get(batch[j], K_conversations)
                            /\ \/ Get(enhanced_conversations[j], K_conversations)
                                    = calls[n].returned
                               \/ <<Get(enhanced_conversations[j], K_conversations)>>
                                    = calls[n].returned.v
                    ELSE /\ made = {}
                         /\ enhanced_conversations[j] = batch[j]

\* a batch of three whose middle item has a str as conversations: three
\* items written, the middle one unchanged, the others enhanced
C5_Witness ==
    /\ Written
    /\ conversations.t = "list"
    /\ Len(conversations.v) = 3
    /\ conversations.v[2] = ConvBad
    /\ Len(enhanced_conversations) = 3
    /\ enhanced_conversations[2] = ConvBad
    /\ Len(calls) = 2

\* the messages stored for the n-th enhancement call
StoredFor(n) == Get(enhanced_conversations[calls[n].i + 1], K_conversations)

C8_Nested(r) == r.t = "list" /\ Len(r.v) > 0 /\ r.v[1].t = "list"

\* C8: a returned non-empty list whose first element is a list is stored as
\* that first element; any other returned value is stored as it is; and the
\* call goes on without an exception.
C8_Unwrap ==
    Entered =>
        /\ \A n \in 1..Len(calls) :
            StoredFor(n) = IF C8_Nested(calls[n].returned)
                           THEN calls[n].returned.v[1]
                           ELSE calls[n].returned
        /\ (calls # <<>> /\ ~write_error) => outcome \in {"none", "returned"}

\* [[msg1, msg2]] was returned, [msg1, msg2] was stored and written
C8_Witness ==
    /\ Written
    /\ Len(calls) = 1
    /\ C8_Nested(calls[1].returned)
    /\ Len(calls[1].returned.v[1].v) = 2
    /\ StoredFor(1) = calls[1].returned.v[1]
    /\ OutputItems = enhanced_conversations

\* C9: an output item has the keys of its input item, in the same order, and
\* the same value under every key but conversations; an item that is not an
\* object is unchanged.
C9_Frame ==
    Entered =>
        \A j \in 1..Len(enhanced_conversations) :
            LET item == Iter(conversations)[j]
                out == enhanced_conversations[j]
            IN  IF item.t = "dict"
                THEN /\ out.t = "dict"
                     /\ Keys(out) = Keys(item)
                     /\ \A n \in 1..Len(item.v) :
                            item.v[n][1] # K_conversations => out.v[n] = item.v[n]
                ELSE out = item

\* a conversation with an id and a title was enhanced
C9_Witness ==
    /\ Written
    /\ \E j \in 1..Len(enhanced_conversations) :
        /\ Iter(conversations)[j] = ConvA
        /\ enhanced_conversations[j] # ConvA
        /\ Get(enhanced_conversations[j], K_id) = JNum(1)

\* C10: when the write of the output file fails, the qa path still returns
\* the output path, and the summary, cot and cot-enhance paths raise.
C10_WriteFailure ==
    (pc = "done" /\ write_error) =>
        /\ content_type = "qa" => outcome = "returned"
        /\ content_type \in {"summary", "cot", "cot-enhance"} => outcome = "OSError"
        /\ output = JNull

\* the qa path returned although its write failed
C10_Witness ==
    /\ pc = "done"
    /\ write_error
    /\ content_type = "qa"
    /\ outcome = "returned"
    /\ output = JNull

====
